---- MODULE Spec2Model ----
(***************************************************************************)
(* Model of the Robotiq2F85TCP client (robotiq2f_tcp.py): a single-threaded *)
(* caller drives one client object; every register access is one           *)
(* request/response exchange over a socket opened and closed by            *)
(* _communicate.  Strings are sequences of one-character strings, so that  *)
(* strip, the "[:-1]" slice, split(" ") and int() are computed as Python   *)
(* computes them.                                                          *)
(***************************************************************************)
EXTENDS Integers, Sequences, FiniteSets, TLC

VARIABLES
    stack,        \* call stack of the client's thread, innermost frame last
    ret,          \* value returned by the frame that returned last
    outcome,      \* how the caller's current/last call ended
    call,         \* the caller's current/last call: function and arguments
    hist,         \* events of the current/last call, oldest first
    openSockets,  \* number of sockets created and not yet closed
    constructed,  \* the caller holds a client object
    self_force,   \* instance attribute self.force: <<>> unset, <<v>> set
    polls,        \* time.sleep calls of the current call
    nCalls        \* calls the caller has made

vars == <<stack, ret, outcome, call, hist, openSockets, constructed,
          self_force, polls, nCalls>>

----------------------------------------------------------------------------
\* Bounds of the model
MaxCalls == 3
MaxPolls == 1

----------------------------------------------------------------------------
\* Python string and integer primitives

SP == " "
NL == "\n"
Whitespace == {" ", "\n", "\t", "\r"}
Digits == <<"0", "1", "2", "3", "4", "5", "6", "7", "8", "9">>

Min2(a, b) == IF a < b THEN a ELSE b
Max2(a, b) == IF a > b THEN a ELSE b
Abs(x) == IF x < 0 THEN -x ELSE x

\* str(n) for n >= 0
RECURSIVE NatToStr(_)
NatToStr(n) ==
    IF n < 10 THEN <<Digits[n + 1]>>
    ELSE Append(NatToStr(n \div 10), Digits[(n % 10) + 1])

\* str(n), as the f-strings format an int
IntToStr(n) == IF n < 0 THEN <<"-">> \o NatToStr(-n) ELSE NatToStr(n)

\* str.lstrip / str.rstrip / str.strip
RECURSIVE LStrip(_)
LStrip(s) ==
    IF s # <<>> /\ Head(s) \in Whitespace THEN LStrip(Tail(s)) ELSE s

RECURSIVE RStrip(_)
RStrip(s) ==
    IF s # <<>> /\ s[Len(s)] \in Whitespace
    THEN RStrip(SubSeq(s, 1, Len(s) - 1)) ELSE s

Strip(s) == LStrip(RStrip(s))

\* s[:-1]
DropLast(s) == IF s = <<>> THEN <<>> ELSE SubSeq(s, 1, Len(s) - 1)

\* s.startswith(p)
StartsWith(s, p) == Len(s) >= Len(p) /\ SubSeq(s, 1, Len(p)) = p

\* s.split(" "): a sequence of strings, empty strings between adjacent spaces
RECURSIVE SplitFrom(_, _, _)
SplitFrom(s, i, cur) ==
    IF i > Len(s) THEN <<cur>>
    ELSE IF s[i] = SP THEN <<cur>> \o SplitFrom(s, i + 1, <<>>)
    ELSE SplitFrom(s, i + 1, Append(cur, s[i]))

Split(s) == SplitFrom(s, 1, <<>>)

DigitVal(c) == CHOOSE d \in 0..9 : Digits[d + 1] = c
IsDigit(c) == \E d \in 0..9 : Digits[d + 1] = c

RECURSIVE DigitsVal(_, _)
DigitsVal(s, acc) ==
    IF s = <<>> THEN acc ELSE DigitsVal(Tail(s), 10 * acc + DigitVal(Head(s)))

\* int(s): surrounding whitespace is ignored, one optional sign, then digits
IntBody(s) == IF s # <<>> /\ Head(s) \in {"+", "-"} THEN Tail(s) ELSE s
IntOk(s) ==
    LET b == IntBody(Strip(s))
    IN  b # <<>> /\ \A i \in 1..Len(b) : IsDigit(b[i])
IntVal(s) ==
    LET t == Strip(s)
        v == DigitsVal(IntBody(t), 0)
    IN  IF t # <<>> /\ Head(t) = "-" THEN -v ELSE v

----------------------------------------------------------------------------
\* Command and response text

GET == <<"G", "E", "T">>
SET == <<"S", "E", "T">>
STA == <<"S", "T", "A">>
ACT == <<"A", "C", "T">>
GTO == <<"G", "T", "O">>
PRE == <<"P", "R", "E">>
POS == <<"P", "O", "S">>
SPE == <<"S", "P", "E">>
FOR == <<"F", "O", "R">>
OBJ == <<"O", "B", "J">>
ACK == <<"a", "c", "k">>

GetCmd(reg) == GET \o <<SP>> \o reg
SetCmd(reg, n) == SET \o <<SP>> \o reg \o <<SP>> \o IntToStr(n)
Reply(reg, n) == reg \o <<SP>> \o IntToStr(n)

\* The line _communicate puts on the wire for a command (line 50)
Wire(command) == Strip(command) \o <<NL>>

\* The words of a line as the controller reads them
Tokens(line) == SelectSeq(Split(Strip(line)), LAMBDA t : t # <<>>)

----------------------------------------------------------------------------
\* The controller's side of an exchange: what it may answer to a line

StatusCodes == {0, 1, 3}
ObjectCodes == {0, 2, 3}
ReadVals == {0, 4, 5, 130, 251}

Readings(reg) ==
    IF reg = STA THEN StatusCodes
    ELSE IF reg = OBJ THEN ObjectCodes
    ELSE ReadVals

\* Answers that do not have the shape "<NAME> <integer>\n"
Garbled(reg) ==
    { <<>>,                          \* peer closed: recv returns b""
      <<"?", NL>>,                   \* unknown-command answer: no second token
      reg \o <<SP, "x", NL>>,        \* second token not an integer
      Reply(reg, 3) }                \* well-formed but not terminated

DeviceReplies(line) ==
    LET t == Tokens(line)
    IN  IF Len(t) >= 2 /\ t[1] = GET
        THEN {Reply(t[2], n) \o <<NL>> : n \in Readings(t[2])} \cup Garbled(t[2])
        ELSE {ACK \o <<NL>>}

ConnectErrors == {"ConnectionRefusedError"}
SendErrors == {"BrokenPipeError"}
RecvErrors == {"ConnectionResetError"}

----------------------------------------------------------------------------
\* Call stack machinery

None == <<>>
Some(v) == <<v>>

Frame(fn, pc, cmd, arg) ==
    [fn |-> fn, pc |-> pc, cmd |-> cmd, arg |-> arg, res |-> <<>>, err |-> ""]

Event(e, d) == [e |-> e, d |-> d]

RStr(s) == [k |-> "str", s |-> s, n |-> 0]
RInt(n) == [k |-> "int", s |-> <<>>, n |-> n]
RBool(b) == [k |-> "bool", s |-> <<>>, n |-> IF b THEN 1 ELSE 0]
RNone == [k |-> "None", s |-> <<>>, n |-> 0]
IsTrue(v) == v.k = "bool" /\ v.n = 1

Top == stack[Len(stack)]
At(fn, pc) == stack # <<>> /\ Top.fn = fn /\ Top.pc = pc
Goto(pc) == [stack EXCEPT ![Len(stack)].pc = pc]
Pop == SubSeq(stack, 1, Len(stack) - 1)

\* The running frame calls `frame` and resumes at `resume` when it returns
CallFrom(resume, frame) == Append(Goto(resume), frame)

\* self._communicate(command), resuming at `resume`
Communicate(resume, command) ==
    CallFrom(resume, Frame("_communicate", "socket", command, <<>>))

\* The running frame returns v to its caller
Return(v) ==
    /\ stack' = Pop
    /\ ret' = v
    /\ outcome' = IF Len(stack) = 1 THEN [k |-> "returned", exc |-> ""] ELSE outcome
    /\ constructed' = IF Len(stack) = 1 /\ Top.fn = "__init__" THEN TRUE ELSE constructed

\* An exception leaves every frame: no frame of the client handles one
Raise(e) ==
    /\ stack' = <<>>
    /\ outcome' = [k |-> "raised", exc |-> e]
    /\ UNCHANGED <<ret, constructed>>

----------------------------------------------------------------------------
\* _communicate (lines 39-56)

\* line 45: socket.socket(...) enters the with block
communicate_socket ==
    /\ At("_communicate", "socket")
    /\ openSockets' = openSockets + 1
    /\ hist' = Append(hist, Event("socket", <<>>))
    /\ stack' = Goto("connect")
    /\ UNCHANGED <<ret, outcome, call, constructed, self_force, polls, nCalls>>

\* Mutant of communicate_connect: a failed connect is tried once more
communicate_connect_retries ==
    /\ At("_communicate", "connect")
    /\ \/ /\ hist' = Append(hist, Event("connect", <<>>))
          /\ stack' = Goto("sendall")
       \/ \E e \in ConnectErrors :
          /\ hist' = Append(hist, Event("connect_fail", <<e>>))
          /\ IF \E i \in DOMAIN hist : hist[i].e = "connect_fail"
             THEN stack' = [stack EXCEPT ![Len(stack)].err = e, ![Len(stack)].pc = "exit"]
             ELSE UNCHANGED stack
    /\ UNCHANGED <<ret, outcome, call, openSockets, constructed, self_force, polls, nCalls>>

\* line 48: s.connect(...) succeeds, or raises into the handler of line 55
communicate_connect ==
    /\ At("_communicate", "connect")
    /\ \/ /\ hist' = Append(hist, Event("connect", <<>>))
          /\ stack' = Goto("sendall")
       \/ \E e \in ConnectErrors :
          /\ hist' = Append(hist, Event("connect_fail", <<e>>))
          /\ stack' = [stack EXCEPT ![Len(stack)].err = e, ![Len(stack)].pc = "exit"]
    /\ UNCHANGED <<ret, outcome, call, openSockets, constructed, self_force, polls, nCalls>>

\* line 50: s.sendall((strip(command) + "\n").encode())
communicate_sendall ==
    /\ At("_communicate", "sendall")
    /\ \/ /\ hist' = Append(hist, Event("send", Wire(Top.cmd)))
          /\ stack' = Goto("recv")
       \/ \E e \in SendErrors :
          /\ hist' = Append(hist, Event("send_fail", <<e>>))
          /\ stack' = [stack EXCEPT ![Len(stack)].err = e, ![Len(stack)].pc = "exit"]
    /\ UNCHANGED <<ret, outcome, call, openSockets, constructed, self_force, polls, nCalls>>

\* lines 53-54: data = s.recv(2 ** 10); return data.decode()[:-1]
communicate_recv ==
    /\ At("_communicate", "recv")
    /\ \/ \E data \in DeviceReplies(Wire(Top.cmd)) :
          /\ hist' = Append(hist, Event("recv", data))
          /\ stack' = [stack EXCEPT ![Len(stack)].res = DropLast(data),
                                    ![Len(stack)].pc = "exit"]
       \/ \E e \in RecvErrors :
          /\ hist' = Append(hist, Event("recv_fail", <<e>>))
          /\ stack' = [stack EXCEPT ![Len(stack)].err = e, ![Len(stack)].pc = "exit"]
    /\ UNCHANGED <<ret, outcome, call, openSockets, constructed, self_force, polls, nCalls>>

\* Mutant of communicate_exit: the socket is closed on the normal path only
communicate_exit_leaks ==
    /\ At("_communicate", "exit")
    /\ openSockets' = IF Top.err = "" THEN openSockets - 1 ELSE openSockets
    /\ hist' = Append(hist, Event("close", <<>>))
    /\ IF Top.err = "" THEN Return(RStr(Top.res)) ELSE Raise(Top.err)
    /\ UNCHANGED <<call, self_force, polls, nCalls>>

\* lines 45, 55-56: the with block closes the socket, then the value is
\* returned or the caught exception, re-raised by line 56, leaves the call
communicate_exit ==
    /\ At("_communicate", "exit")
    /\ openSockets' = openSockets - 1
    /\ hist' = Append(hist, Event("close", <<>>))
    /\ IF Top.err = "" THEN Return(RStr(Top.res)) ELSE Raise(Top.err)
    /\ UNCHANGED <<call, self_force, polls, nCalls>>

----------------------------------------------------------------------------
\* __init__ and _check_connection (lines 24-37)

\* lines 25-28: store host_ip and port, call self._check_connection()
init_check_connection ==
    /\ At("__init__", "L28")
    /\ stack' = CallFrom("L28r", Frame("_check_connection", "L36", <<>>, <<>>))
    /\ UNCHANGED <<ret, outcome, call, hist, openSockets, constructed, self_force,
                   polls, nCalls>>

init_return ==
    /\ At("__init__", "L28r")
    /\ Return(RNone)
    /\ UNCHANGED <<call, hist, openSockets, self_force, polls, nCalls>>

\* line 36: self._communicate("GET STA")
check_connection_communicate ==
    /\ At("_check_connection", "L36")
    /\ stack' = Communicate("L36r", GetCmd(STA))
    /\ UNCHANGED <<ret, outcome, call, hist, openSockets, constructed, self_force,
                   polls, nCalls>>

\* Mutant of check_connection_test: any answer is accepted
check_connection_test_accepts ==
    /\ At("_check_connection", "L36r")
    /\ Return(RNone)
    /\ UNCHANGED <<call, hist, openSockets, self_force, polls, nCalls>>

\* lines 36-37: if not <response>.startswith("STA"): raise ConnectionError
check_connection_test ==
    /\ At("_check_connection", "L36r")
    /\ IF StartsWith(ret.s, STA) THEN Return(RNone) ELSE Raise("ConnectionError")
    /\ UNCHANGED <<call, hist, openSockets, self_force, polls, nCalls>>

----------------------------------------------------------------------------
\* Static helpers (lines 179-186)

\* A saturation whose upper limit is one too high
saturate_command_off_by_one(cmd) == Min2(256, Max2(cmd, 0))

\* _saturate_command: min(255, max(cmd, 0))
saturate_command(cmd) == Min2(255, Max2(cmd, 0))

\* A convergence test that accepts a difference of 5
is_target_value_set_inclusive(target, value) == Abs(target - value) <= 5

\* _is_target_value_set: abs(target - value) < 5
is_target_value_set(target, value) == Abs(target - value) < 5

\* int(<response>.split(" ")[1]): the exception it raises, "" when it raises none
ParseError(s) ==
    LET parts == Split(s)
    IN  IF Len(parts) < 2 THEN "IndexError"
        ELSE IF ~IntOk(parts[2]) THEN "ValueError"
        ELSE ""
ParseValue(s) == IntVal(Split(s)[2])

\* Python truth value of an optional int argument: None and 0 are false
Truthy(opt) == opt # None /\ opt[1] # 0

UnchangedByStep == <<call, hist, openSockets, self_force, nCalls>>

----------------------------------------------------------------------------
\* Register getters (lines 113-118, 120-127, 133-136, 150-155, 164-170)

GetterRegister(fn) ==
    CASE fn = "position.getter" -> POS
      [] fn = "target_position.getter" -> PRE
      [] fn = "speed.getter" -> SPE
      [] fn = "grasp_force.getter" -> FOR
      [] fn = "is_object_detected" -> OBJ
      [] fn = "is_gripper_moving" -> OBJ

\* self._communicate("GET <REG>")
getter_communicate(fn) ==
    /\ At(fn, "get")
    /\ stack' = Communicate("parse", GetCmd(GetterRegister(fn)))
    /\ UNCHANGED <<ret, outcome, call, hist, openSockets, constructed, self_force,
                   polls, nCalls>>

\* A getter that asks again when it cannot read the answer
getter_return_retries(fn) ==
    /\ At(fn, "parse")
    /\ IF ParseError(ret.s) # ""
       THEN /\ stack' = Goto("get")
            /\ UNCHANGED <<ret, outcome, constructed>>
       ELSE Return(RInt(ParseValue(ret.s)))
    /\ UNCHANGED <<UnchangedByStep, polls>>

\* return int(<response>.split(" ")[1])
getter_return(fn) ==
    /\ At(fn, "parse")
    /\ IF ParseError(ret.s) # "" THEN Raise(ParseError(ret.s))
       ELSE Return(RInt(ParseValue(ret.s)))
    /\ UNCHANGED <<UnchangedByStep, polls>>

\* return int(<response>.split(" ")[1]) == code
flag_return(fn, code) ==
    /\ At(fn, "parse")
    /\ IF ParseError(ret.s) # "" THEN Raise(ParseError(ret.s))
       ELSE Return(RBool(ParseValue(ret.s) = code))
    /\ UNCHANGED <<UnchangedByStep, polls>>

position_getter ==
    getter_communicate("position.getter") \/ getter_return("position.getter")
target_position_getter ==
    getter_communicate("target_position.getter") \/ getter_return("target_position.getter")
speed_getter ==
    getter_communicate("speed.getter") \/ getter_return("speed.getter")
grasp_force_getter ==
    getter_communicate("grasp_force.getter") \/ getter_return("grasp_force.getter")
\* line 114: the code for "object detected" is 2
is_object_detected ==
    getter_communicate("is_object_detected") \/ flag_return("is_object_detected", 2)
\* line 118: the code for "moving" is 0
is_gripper_moving ==
    getter_communicate("is_gripper_moving") \/ flag_return("is_gripper_moving", 0)

----------------------------------------------------------------------------
\* Register setters (lines 129-131, 138-148, 157-162, 172-177)

\* Mutant of position_setter: the assignment is forwarded to target_position
position_setter_forwards ==
    /\ At("position.setter", "L131")
    /\ stack' = CallFrom("L131", Frame("target_position.setter", "L145", <<>>, Top.arg))
    /\ UNCHANGED <<ret, outcome, call, hist, openSockets, constructed, self_force,
                   polls, nCalls>>

\* line 131: raise ValueError
position_setter ==
    /\ At("position.setter", "L131")
    /\ Raise("ValueError")
    /\ UNCHANGED <<UnchangedByStep, polls>>

\* line 145: the f-string "SET  POS {position}" holds the argument as passed
target_position_command(position) ==
    SET \o <<SP, SP>> \o POS \o <<SP>> \o IntToStr(position)

\* line 145: self._communicate(f"SET  POS {position}")
target_position_setter_communicate ==
    /\ At("target_position.setter", "L145")
    /\ stack' = Communicate("L147", target_position_command(Top.arg[1][1]))
    /\ UNCHANGED <<ret, outcome, call, hist, openSockets, constructed, self_force,
                   polls, nCalls>>

\* lines 146-147: target_position = saturate(position); read self.target_position
target_position_setter_read ==
    /\ At("target_position.setter", "L147")
    /\ stack' = CallFrom("L147r", Frame("target_position.getter", "get", <<>>, <<>>))
    /\ UNCHANGED <<ret, outcome, call, hist, openSockets, constructed, self_force,
                   polls, nCalls>>

\* lines 147-148: while not _is_target_value_set(...): time.sleep(0.01)
target_position_setter_test ==
    /\ At("target_position.setter", "L147r")
    /\ IF is_target_value_set(saturate_command(Top.arg[1][1]), ret.n)
       THEN Return(RNone) /\ UNCHANGED polls
       ELSE /\ polls < MaxPolls
            /\ polls' = polls + 1
            /\ stack' = Goto("L147")
            /\ UNCHANGED <<ret, outcome, constructed>>
    /\ UNCHANGED UnchangedByStep

\* lines 159-160: speed = saturate(speed); self._communicate(f"SET SPE {speed}")
speed_setter_communicate ==
    /\ At("speed.setter", "L159")
    /\ stack' = Communicate("L161", SetCmd(SPE, saturate_command(Top.arg[1][1])))
    /\ UNCHANGED <<ret, outcome, call, hist, openSockets, constructed, self_force,
                   polls, nCalls>>

\* line 161: read self.speed
speed_setter_read ==
    /\ At("speed.setter", "L161")
    /\ stack' = CallFrom("L161r", Frame("speed.getter", "get", <<>>, <<>>))
    /\ UNCHANGED <<ret, outcome, call, hist, openSockets, constructed, self_force,
                   polls, nCalls>>

\* lines 161-162: while not _is_target_value_set(speed, self.speed): time.sleep(0.01)
speed_setter_test ==
    /\ At("speed.setter", "L161r")
    /\ IF is_target_value_set(saturate_command(Top.arg[1][1]), ret.n)
       THEN Return(RNone) /\ UNCHANGED polls
       ELSE /\ polls < MaxPolls
            /\ polls' = polls + 1
            /\ stack' = Goto("L161")
            /\ UNCHANGED <<ret, outcome, constructed>>
    /\ UNCHANGED UnchangedByStep

\* lines 174-175: force = saturate(force); self._communicate(f"SET FOR {force}")
grasp_force_setter_communicate ==
    /\ At("grasp_force.setter", "L174")
    /\ stack' = Communicate("L176", SetCmd(FOR, saturate_command(Top.arg[1][1])))
    /\ UNCHANGED <<ret, outcome, call, hist, openSockets, constructed, self_force,
                   polls, nCalls>>

\* lines 176-177: while not _is_target_value_set(force, self.force): time.sleep(0.01)
\* self.force is no property of the class: the read finds the instance
\* attribute, or raises AttributeError when no assignment has created it
grasp_force_setter_test ==
    /\ At("grasp_force.setter", "L176")
    /\ IF self_force = None
       THEN Raise("AttributeError") /\ UNCHANGED polls
       ELSE IF is_target_value_set(saturate_command(Top.arg[1][1]), self_force[1])
       THEN Return(RNone) /\ UNCHANGED polls
       ELSE /\ polls < MaxPolls
            /\ polls' = polls + 1
            /\ UNCHANGED <<stack, ret, outcome, constructed>>
    /\ UNCHANGED UnchangedByStep

----------------------------------------------------------------------------
\* activate_gripper and deactivate_gripper (lines 58-73)

CmdSetAct1 == SetCmd(ACT, 1)
CmdSetAct0 == SetCmd(ACT, 0)
CmdSetGto1 == SetCmd(GTO, 1)
StatusActive == Reply(STA, 3)
StatusUnpowered == Reply(STA, 0)

\* line 60: self._communicate("SET ACT 1")
activate_gripper_set_act ==
    /\ At("activate_gripper", "L60")
    /\ stack' = Communicate("L61", CmdSetAct1)
    /\ UNCHANGED <<ret, outcome, call, hist, openSockets, constructed, self_force,
                   polls, nCalls>>

\* line 61: self._communicate("GET STA")
activate_gripper_get_sta ==
    /\ At("activate_gripper", "L61")
    /\ stack' = Communicate("L61r", GetCmd(STA))
    /\ UNCHANGED <<ret, outcome, call, hist, openSockets, constructed, self_force,
                   polls, nCalls>>

\* Mutant of activate_gripper_test: the loop condition is inverted
activate_gripper_test_inverted ==
    /\ At("activate_gripper", "L61r")
    /\ IF ret.s # StatusActive
       THEN stack' = Goto("L65") /\ UNCHANGED polls
       ELSE /\ polls < MaxPolls
            /\ polls' = polls + 1
            /\ stack' = Goto("L61")
    /\ UNCHANGED <<ret, outcome, constructed, UnchangedByStep>>

\* lines 61-62: while not <response> == "STA 3": time.sleep(0.01)
activate_gripper_test ==
    /\ At("activate_gripper", "L61r")
    /\ IF ret.s = StatusActive
       THEN stack' = Goto("L65") /\ UNCHANGED polls
       ELSE /\ polls < MaxPolls
            /\ polls' = polls + 1
            /\ stack' = Goto("L61")
    /\ UNCHANGED <<ret, outcome, constructed, UnchangedByStep>>

\* An activation that skips SET GTO 1
activate_gripper_set_gto_skipped ==
    /\ At("activate_gripper", "L65")
    /\ stack' = Goto("L66")
    /\ UNCHANGED <<ret, outcome, call, hist, openSockets, constructed, self_force,
                   polls, nCalls>>

\* line 65: self._communicate("SET GTO 1")
activate_gripper_set_gto ==
    /\ At("activate_gripper", "L65")
    /\ stack' = Communicate("L66", CmdSetGto1)
    /\ UNCHANGED <<ret, outcome, call, hist, openSockets, constructed, self_force,
                   polls, nCalls>>

\* line 66: self.target_position = 0
activate_gripper_target_position ==
    /\ At("activate_gripper", "L66")
    /\ stack' = CallFrom("L67", Frame("target_position.setter", "L145", <<>>, <<Some(0)>>))
    /\ UNCHANGED <<ret, outcome, call, hist, openSockets, constructed, self_force,
                   polls, nCalls>>

\* line 67: self.speed = 255
activate_gripper_speed ==
    /\ At("activate_gripper", "L67")
    /\ stack' = CallFrom("L68", Frame("speed.setter", "L159", <<>>, <<Some(255)>>))
    /\ UNCHANGED <<ret, outcome, call, hist, openSockets, constructed, self_force,
                   polls, nCalls>>

\* line 68: self.force = 0 binds the instance attribute `force`; the class
\* has no property of that name, so no setter runs
activate_gripper_force ==
    /\ At("activate_gripper", "L68")
    /\ self_force' = Some(0)
    /\ Return(RNone)
    /\ UNCHANGED <<call, hist, openSockets, polls, nCalls>>

\* line 71: self._communicate("SET ACT 0")
deactivate_gripper_set_act ==
    /\ At("deactivate_gripper", "L71")
    /\ stack' = Communicate("L72", CmdSetAct0)
    /\ UNCHANGED <<ret, outcome, call, hist, openSockets, constructed, self_force,
                   polls, nCalls>>

\* line 72: self._communicate("GET STA")
deactivate_gripper_get_sta ==
    /\ At("deactivate_gripper", "L72")
    /\ stack' = Communicate("L72r", GetCmd(STA))
    /\ UNCHANGED <<ret, outcome, call, hist, openSockets, constructed, self_force,
                   polls, nCalls>>

\* Mutant of deactivate_gripper_test: the loop waits for the ACTIVE answer
deactivate_gripper_test_active ==
    /\ At("deactivate_gripper", "L72r")
    /\ IF ret.s = StatusActive
       THEN Return(RNone) /\ UNCHANGED polls
       ELSE /\ polls < MaxPolls
            /\ polls' = polls + 1
            /\ stack' = Goto("L72")
            /\ UNCHANGED <<ret, outcome, constructed>>
    /\ UNCHANGED UnchangedByStep

\* lines 72-73: while not <response> == "STA 0": time.sleep(0.01)
deactivate_gripper_test ==
    /\ At("deactivate_gripper", "L72r")
    /\ IF ret.s = StatusUnpowered
       THEN Return(RNone) /\ UNCHANGED polls
       ELSE /\ polls < MaxPolls
            /\ polls' = polls + 1
            /\ stack' = Goto("L72")
            /\ UNCHANGED <<ret, outcome, constructed>>
    /\ UNCHANGED UnchangedByStep

----------------------------------------------------------------------------
\* move_to_position, close, open (lines 75-89, 107-111)

\* lines 83-84: if speed: self.speed = speed
move_to_position_speed ==
    /\ At("move_to_position", "L83")
    /\ IF Truthy(Top.arg[2])
       THEN stack' = CallFrom("L85", Frame("speed.setter", "L159", <<>>, <<Top.arg[2]>>))
       ELSE stack' = Goto("L85")
    /\ UNCHANGED <<ret, outcome, call, hist, openSockets, constructed, self_force,
                   polls, nCalls>>

\* lines 85-86: if grasp_force: self.force = grasp_force (an attribute, as
\* at line 68)
move_to_position_force ==
    /\ At("move_to_position", "L85")
    /\ self_force' = IF Truthy(Top.arg[3]) THEN Top.arg[3] ELSE self_force
    /\ stack' = Goto("L87")
    /\ UNCHANGED <<ret, outcome, call, hist, openSockets, constructed, polls, nCalls>>

\* line 87: self.target_position = position
move_to_position_target_position ==
    /\ At("move_to_position", "L87")
    /\ stack' = CallFrom("L88", Frame("target_position.setter", "L145", <<>>, <<Top.arg[1]>>))
    /\ UNCHANGED <<ret, outcome, call, hist, openSockets, constructed, self_force,
                   polls, nCalls>>

\* line 88: self.is_gripper_moving()
move_to_position_is_moving ==
    /\ At("move_to_position", "L88")
    /\ stack' = CallFrom("L88r", Frame("is_gripper_moving", "get", <<>>, <<>>))
    /\ UNCHANGED <<ret, outcome, call, hist, openSockets, constructed, self_force,
                   polls, nCalls>>

\* A wait that looks at the motion status once and returns
move_to_position_test_once ==
    /\ At("move_to_position", "L88r")
    /\ Return(RNone)
    /\ UNCHANGED <<UnchangedByStep, polls>>

\* lines 88-89: while self.is_gripper_moving(): time.sleep(0.05)
move_to_position_test ==
    /\ At("move_to_position", "L88r")
    /\ IF ~IsTrue(ret)
       THEN Return(RNone) /\ UNCHANGED polls
       ELSE /\ polls < MaxPolls
            /\ polls' = polls + 1
            /\ stack' = Goto("L88")
            /\ UNCHANGED <<ret, outcome, constructed>>
    /\ UNCHANGED UnchangedByStep

\* A close that also asks for full speed
close_move_full_speed ==
    /\ At("close", "L108")
    /\ stack' = CallFrom("ret", Frame("move_to_position", "L83", <<>>,
                                      <<Some(255), Some(255), None>>))
    /\ UNCHANGED <<ret, outcome, call, hist, openSockets, constructed, self_force,
                   polls, nCalls>>

\* line 108: self.move_to_position(255, None, None)
close_move ==
    /\ At("close", "L108")
    /\ stack' = CallFrom("ret", Frame("move_to_position", "L83", <<>>,
                                      <<Some(255), None, None>>))
    /\ UNCHANGED <<ret, outcome, call, hist, openSockets, constructed, self_force,
                   polls, nCalls>>

\* line 111: self.move_to_position(0, None, None)
open_move ==
    /\ At("open", "L111")
    /\ stack' = CallFrom("ret", Frame("move_to_position", "L83", <<>>,
                                      <<Some(0), None, None>>))
    /\ UNCHANGED <<ret, outcome, call, hist, openSockets, constructed, self_force,
                   polls, nCalls>>

\* close and open return what move_to_position returned (None)
close_open_return ==
    /\ stack # <<>> /\ Top.fn \in {"close", "open"} /\ Top.pc = "ret"
    /\ Return(RNone)
    /\ UNCHANGED <<UnchangedByStep, polls>>

----------------------------------------------------------------------------
\* amove_to_position (lines 91-105)

\* The coroutine's awaits so far in the call
Awaits == Cardinality({i \in DOMAIN hist : hist[i].e = "await"})

\* lines 99-100: if speed: self.speed = speed
amove_to_position_speed ==
    /\ At("amove_to_position", "L99")
    /\ IF Truthy(Top.arg[2])
       THEN stack' = CallFrom("L101", Frame("speed.setter", "L159", <<>>, <<Top.arg[2]>>))
       ELSE stack' = Goto("L101")
    /\ UNCHANGED <<ret, outcome, call, hist, openSockets, constructed, self_force,
                   polls, nCalls>>

\* lines 101-102: if grasp_force: self.force = grasp_force
amove_to_position_force ==
    /\ At("amove_to_position", "L101")
    /\ self_force' = IF Truthy(Top.arg[3]) THEN Top.arg[3] ELSE self_force
    /\ stack' = Goto("L103")
    /\ UNCHANGED <<ret, outcome, call, hist, openSockets, constructed, polls, nCalls>>

\* line 103: self.target_position = position
amove_to_position_target_position ==
    /\ At("amove_to_position", "L103")
    /\ stack' = CallFrom("L104", Frame("target_position.setter", "L145", <<>>, <<Top.arg[1]>>))
    /\ UNCHANGED <<ret, outcome, call, hist, openSockets, constructed, self_force,
                   polls, nCalls>>

\* line 104: self.is_gripper_moving()
amove_to_position_is_moving ==
    /\ At("amove_to_position", "L104")
    /\ stack' = CallFrom("L104r", Frame("is_gripper_moving", "get", <<>>, <<>>))
    /\ UNCHANGED <<ret, outcome, call, hist, openSockets, constructed, self_force,
                   polls, nCalls>>

\* lines 104-105: while self.is_gripper_moving(): await asyncio.sleep(0.05);
\* at the await the coroutine hands control to the event loop
amove_to_position_test ==
    /\ At("amove_to_position", "L104r")
    /\ IF ~IsTrue(ret)
       THEN Return(RNone) /\ UNCHANGED hist
       ELSE /\ polls + Awaits < MaxPolls
            /\ hist' = Append(hist, Event("await", <<>>))
            /\ stack' = Goto("L105")
            /\ UNCHANGED <<ret, outcome, constructed>>
    /\ UNCHANGED <<call, openSockets, self_force, polls, nCalls>>

\* line 105: the event loop resumes the coroutine when the sleep is over
amove_to_position_resume ==
    /\ At("amove_to_position", "L105")
    /\ stack' = Goto("L104")
    /\ UNCHANGED <<ret, outcome, call, hist, openSockets, constructed, self_force,
                   polls, nCalls>>

----------------------------------------------------------------------------
\* The caller

\* Values the caller passes to the setters
InputVals == {-100, 0, 130, 255, 400}
\* Arguments the caller passes to move_to_position
MovePositions == {255}
MoveSpeeds == {None, Some(0), Some(255)}
MoveForces == {None, Some(0), Some(10)}

NoArgCalls ==
    {"activate_gripper", "deactivate_gripper", "close", "open",
     "is_object_detected", "is_gripper_moving", "position.getter",
     "target_position.getter", "speed.getter", "grasp_force.getter"}
Setters ==
    {"position.setter", "target_position.setter", "speed.setter", "grasp_force.setter"}

ApiCalls ==
    IF ~constructed THEN {[fn |-> "__init__", arg |-> <<>>]}
    ELSE {[fn |-> f, arg |-> <<>>] : f \in NoArgCalls}
         \cup {[fn |-> f, arg |-> <<Some(v)>>] : f \in Setters, v \in InputVals}
         \cup {[fn |-> m, arg |-> <<Some(p), s, f>>] :
                  m \in {"move_to_position", "amove_to_position"},
                  p \in MovePositions, s \in MoveSpeeds, f \in MoveForces}

\* Where a function's frame starts
EntryPc(fn) ==
    CASE fn = "__init__" -> "L28"
      [] fn = "activate_gripper" -> "L60"
      [] fn = "deactivate_gripper" -> "L71"
      [] fn = "move_to_position" -> "L83"
      [] fn = "amove_to_position" -> "L99"
      [] fn = "close" -> "L108"
      [] fn = "open" -> "L111"
      [] fn = "position.setter" -> "L131"
      [] fn = "target_position.setter" -> "L145"
      [] fn = "speed.setter" -> "L159"
      [] fn = "grasp_force.setter" -> "L174"
      [] OTHER -> "get"

NoCall == [fn |-> "", arg |-> <<>>]
Running == [k |-> "running", exc |-> ""]
Idle == [k |-> "none", exc |-> ""]

\* The caller makes its next call
Invoke ==
    /\ stack = <<>>
    /\ outcome = Idle
    /\ nCalls < MaxCalls
    /\ \E c \in ApiCalls :
       /\ call' = c
       /\ stack' = <<Frame(c.fn, EntryPc(c.fn), <<>>, c.arg)>>
    /\ outcome' = Running
    /\ nCalls' = nCalls + 1
    /\ UNCHANGED <<ret, hist, openSockets, constructed, self_force, polls>>

\* The caller is done with the result of a call that returned or raised
\* and goes on to its next statement
caller_continue ==
    /\ stack = <<>>
    /\ outcome.k \in {"returned", "raised"}
    /\ nCalls < MaxCalls
    /\ outcome' = Idle
    /\ call' = NoCall
    /\ ret' = RNone
    /\ hist' = <<>>
    /\ polls' = 0
    /\ UNCHANGED <<stack, openSockets, constructed, self_force, nCalls>>

----------------------------------------------------------------------------
Init ==
    /\ stack = <<>>
    /\ ret = RNone
    /\ outcome = Idle
    /\ call = NoCall
    /\ hist = <<>>
    /\ openSockets = 0
    /\ constructed = FALSE
    /\ self_force = None
    /\ polls = 0
    /\ nCalls = 0

Next ==
    \/ Invoke
    \/ caller_continue
    \/ communicate_socket
    \/ communicate_connect
    \/ communicate_sendall
    \/ communicate_recv
    \/ communicate_exit
    \/ init_check_connection
    \/ init_return
    \/ check_connection_communicate
    \/ check_connection_test
    \/ position_getter
    \/ target_position_getter
    \/ speed_getter
    \/ grasp_force_getter
    \/ is_object_detected
    \/ is_gripper_moving
    \/ position_setter
    \/ target_position_setter_communicate
    \/ target_position_setter_read
    \/ target_position_setter_test
    \/ speed_setter_communicate
    \/ speed_setter_read
    \/ speed_setter_test
    \/ grasp_force_setter_communicate
    \/ grasp_force_setter_test
    \/ activate_gripper_set_act
    \/ activate_gripper_get_sta
    \/ activate_gripper_test
    \/ activate_gripper_set_gto
    \/ activate_gripper_target_position
    \/ activate_gripper_speed
    \/ activate_gripper_force
    \/ deactivate_gripper_set_act
    \/ deactivate_gripper_get_sta
    \/ deactivate_gripper_test
    \/ move_to_position_speed
    \/ move_to_position_force
    \/ move_to_position_target_position
    \/ move_to_position_is_moving
    \/ move_to_position_test
    \/ close_move
    \/ open_move
    \/ close_open_return
    \/ amove_to_position_speed
    \/ amove_to_position_force
    \/ amove_to_position_target_position
    \/ amove_to_position_is_moving
    \/ amove_to_position_test
    \/ amove_to_position_resume

Spec == Init /\ [][Next]_vars

----------------------------------------------------------------------------
\* The static helpers called on their own (lines 179-186)

SaturateInputs == (-100)..400
TargetVals == 0..255

StaticCalls ==
    {[fn |-> "_saturate_command", arg |-> <<Some(v)>>] : v \in SaturateInputs}
    \cup {[fn |-> "_is_target_value_set", arg |-> <<Some(t), Some(r)>>] :
              t \in TargetVals, r \in TargetVals}

StaticEntryPc(fn) == IF fn = "_saturate_command" THEN "L181" ELSE "L186"

\* A caller has called one of the helpers
InitStatic ==
    /\ \E c \in StaticCalls :
          /\ call = c
          /\ stack = <<Frame(c.fn, StaticEntryPc(c.fn), <<>>, c.arg)>>
    /\ ret = RNone
    /\ outcome = Running
    /\ hist = <<>>
    /\ openSockets = 0
    /\ constructed = FALSE
    /\ self_force = None
    /\ polls = 0
    /\ nCalls = 1

\* line 181: return min(255, max(cmd, 0))
saturate_command_return ==
    /\ At("_saturate_command", "L181")
    /\ Return(RInt(saturate_command(Top.arg[1][1])))
    /\ UNCHANGED <<UnchangedByStep, polls>>

\* line 186: return abs(target - value) < 5
is_target_value_set_return ==
    /\ At("_is_target_value_set", "L186")
    /\ Return(RBool(is_target_value_set(Top.arg[1][1], Top.arg[2][1])))
    /\ UNCHANGED <<UnchangedByStep, polls>>

\* The caller passes the saturated value to _saturate_command again
saturate_command_again ==
    /\ stack = <<>>
    /\ call.fn = "_saturate_command"
    /\ outcome.k = "returned"
    /\ nCalls < MaxCalls
    /\ stack' = <<Frame("_saturate_command", "L181", <<>>, <<Some(ret.n)>>)>>
    /\ outcome' = Running
    /\ nCalls' = nCalls + 1
    /\ UNCHANGED <<ret, call, hist, openSockets, constructed, self_force, polls>>

NextStatic ==
    \/ saturate_command_return
    \/ is_target_value_set_return
    \/ saturate_command_again

StaticSpec == InitStatic /\ [][NextStatic]_vars

----------------------------------------------------------------------------
\* The register setters under a transport that does not fail and a
\* controller whose register settles

\* The client is constructed, or constructed and activated, and the caller
\* has called one of the setters
InitLive ==
    /\ \E f \in {"target_position.setter", "speed.setter", "grasp_force.setter"} :
       \E v \in InputVals :
          /\ call = [fn |-> f, arg |-> <<Some(v)>>]
          /\ stack = <<Frame(f, EntryPc(f), <<>>, <<Some(v)>>)>>
    /\ ret = RNone
    /\ outcome = Running
    /\ hist = <<>>
    /\ openSockets = 0
    /\ constructed = TRUE
    /\ \/ self_force = None /\ nCalls = 2
       \/ self_force = Some(0) /\ nCalls = 3
    /\ polls = 0

\* The answers to GET lines received before event j
GetAnswersBefore(j) ==
    Cardinality({i \in 2..(j - 1) :
                    hist[i].e = "recv" /\ hist[i - 1].e = "send"
                    /\ StartsWith(hist[i - 1].d, GET)})

\* No connect, send or receive has failed, and the controller answers a
\* GET with a value of the register that, after MaxPolls answers, is
\* within 5 of the clamped value of the call
Environment ==
    /\ \A i \in DOMAIN hist :
          hist[i].e \notin {"connect_fail", "send_fail", "recv_fail"}
    /\ \A j \in DOMAIN hist :
          (hist[j].e = "recv" /\ j > 1 /\ StartsWith(hist[j - 1].d, GET)) =>
              \E r \in ReadVals :
                  /\ hist[j].d = Reply(Tokens(hist[j - 1].d)[2], r) \o <<NL>>
                  /\ GetAnswersBefore(j) >= MaxPolls =>
                        Abs(Min2(255, Max2(call.arg[1][1], 0)) - r) < 5

\* lines 176-177 once polls has reached MaxPolls: time.sleep(0.01) ...
grasp_force_setter_sleep ==
    /\ At("grasp_force.setter", "L176")
    /\ self_force # None
    /\ ~is_target_value_set(saturate_command(Top.arg[1][1]), self_force[1])
    /\ polls = MaxPolls
    /\ stack' = Goto("L177")
    /\ UNCHANGED <<ret, outcome, call, hist, openSockets, constructed, self_force,
                   polls, nCalls>>

\* ... and the test of line 176 again
grasp_force_setter_wake ==
    /\ At("grasp_force.setter", "L177")
    /\ stack' = Goto("L176")
    /\ UNCHANGED <<ret, outcome, call, hist, openSockets, constructed, self_force,
                   polls, nCalls>>

NextLive ==
    \/ communicate_socket /\ Environment'
    \/ communicate_connect /\ Environment'
    \/ communicate_sendall /\ Environment'
    \/ communicate_recv /\ Environment'
    \/ communicate_exit /\ Environment'
    \/ target_position_getter /\ Environment'
    \/ speed_getter /\ Environment'
    \/ target_position_setter_communicate /\ Environment'
    \/ target_position_setter_read /\ Environment'
    \/ target_position_setter_test /\ Environment'
    \/ speed_setter_communicate /\ Environment'
    \/ speed_setter_read /\ Environment'
    \/ speed_setter_test /\ Environment'
    \/ grasp_force_setter_communicate /\ Environment'
    \/ grasp_force_setter_test /\ Environment'
    \/ grasp_force_setter_sleep /\ Environment'
    \/ grasp_force_setter_wake /\ Environment'

\* The client's thread keeps running and the controller keeps answering
LiveSpec == InitLive /\ [][NextLive]_vars /\ WF_vars(NextLive)

----------------------------------------------------------------------------
\* Reading the history of a call

Clamp(v, lo, hi) == IF v < lo THEN lo ELSE IF v > hi THEN hi ELSE v

IsSend(i) == hist[i].e = "send"
IsRecv(i) == hist[i].e = "recv"
Words(i) == Tokens(hist[i].d)

\* The lines sent so far in the call, each as its words
SentWords ==
    LET sends == SelectSeq(hist, LAMBDA ev : ev.e = "send")
    IN  [i \in 1..Len(sends) |-> Tokens(sends[i].d)]

\* The SET lines among them
SetWords == SelectSeq(SentWords, LAMBDA w : Len(w) >= 1 /\ w[1] = SET)

IsSetAt(i, reg) ==
    IsSend(i) /\ Len(Words(i)) = 3 /\ Words(i)[1] = SET /\ Words(i)[2] = reg
\* The line "GET <reg>" / "SET <reg> <n>" as the wire protocol writes it
GetLine(reg) == GetCmd(reg) \o <<NL>>
SetLine(reg, n) == SetCmd(reg, n) \o <<NL>>

\* The lines sent so far in the call
SentLines ==
    LET sends == SelectSeq(hist, LAMBDA ev : ev.e = "send")
    IN  [i \in 1..Len(sends) |-> sends[i].d]

IsGetAt(i, reg) == IsSend(i) /\ hist[i].d = GetLine(reg)

\* Event j is the controller's answer to a GET <reg>, the complete line
\* "<reg> <n>" with its terminator
IsReplyAt(j, reg, n) ==
    /\ IsRecv(j)
    /\ j > 1 /\ IsGetAt(j - 1, reg)
    /\ hist[j].d = Reply(reg, n) \o <<NL>>

\* The last answer received in the call: every exchange that received one
\* ends with the events recv, close
LastRecv == Len(hist) - 1

Ended == stack = <<>> /\ outcome.k \in {"returned", "raised"}
Returned == stack = <<>> /\ outcome.k = "returned"
RaisedWith(e) == stack = <<>> /\ outcome = [k |-> "raised", exc |-> e]

ValueSetters == {"target_position.setter", "speed.setter", "grasp_force.setter"}
SetRegister(fn) ==
    CASE fn = "target_position.setter" -> POS
      [] fn = "speed.setter" -> SPE
      [] fn = "grasp_force.setter" -> FOR
ReadBackRegister(fn) ==
    CASE fn = "target_position.setter" -> PRE
      [] fn = "speed.setter" -> SPE
      [] fn = "grasp_force.setter" -> FOR

----------------------------------------------------------------------------
\* C1: every SET POS / SET SPE / SET FOR line the client has transmitted
\* carries a value in [0,255], and in a call of one of the three setters
\* with value v it carries clamp(v, 0, 255).
C1_SentValuesSaturated ==
    \A i \in DOMAIN hist :
        (IsSetAt(i, POS) \/ IsSetAt(i, SPE) \/ IsSetAt(i, FOR)) =>
            /\ IntOk(Words(i)[3])
            /\ IntVal(Words(i)[3]) \in 0..255
            /\ call.fn \in ValueSetters =>
                   IntVal(Words(i)[3]) = Clamp(call.arg[1][1], 0, 255)

\* C2: a call move_to_position(255, 255, 10) that returns has sent the
\* writes SET SPE 255, SET FOR 10, SET POS 255 in this order and no other
\* write, every GET OBJ after the SET POS, and its last answer is a
\* motion status that reports not moving.
C2_MoveWritesInOrder ==
    (call = [fn |-> "move_to_position", arg |-> <<Some(255), Some(255), Some(10)>>]
     /\ Returned) =>
        /\ SetWords = << <<SET, SPE, IntToStr(255)>>,
                         <<SET, FOR, IntToStr(10)>>,
                         <<SET, POS, IntToStr(255)>> >>
        /\ \A i, j \in DOMAIN hist : IsSetAt(i, POS) /\ IsGetAt(j, OBJ) => i < j
        /\ \E n \in ObjectCodes \ {0} : IsReplyAt(LastRecv, OBJ, n)

\* C3: a call of the target-position, speed or force setter with value v
\* that returns has sent the SET of its register, has then polled GET PRE,
\* GET SPE or GET FOR respectively (never GET POS), and the last answer it
\* received, after the SET, is a read-back r with |clamp(v,0,255) - r| < 5.
C3_SetterReturnsAfterReadBack ==
    (call.fn \in ValueSetters /\ Returned) =>
        /\ \E i \in DOMAIN hist :
              /\ IsSetAt(i, SetRegister(call.fn))
              /\ i < LastRecv
              /\ \E r \in ReadVals :
                    /\ IsReplyAt(LastRecv, ReadBackRegister(call.fn), r)
                    /\ Abs(Clamp(call.arg[1][1], 0, 255) - r) < 5
        /\ \A i \in DOMAIN hist : ~IsGetAt(i, POS)

\* The same statement for the two setters that do read the register back
TargetAndSpeedSettersReadBack ==
    call.fn \in {"target_position.setter", "speed.setter"} =>
        C3_SetterReturnsAfterReadBack

\* C4: in activate_gripper the first line sent is SET ACT 1 and the second
\* GET STA; until an answer STA 3 has been received only GET STA follows;
\* SET GTO 1 and every later write are sent only after an answer STA 3;
\* the line sent next after the first STA 3 is SET GTO 1, also when the
\* very first answer is STA 3; a call that returns has done all of this.
C4_ActivatePollsBeforeBaseline ==
    call.fn = "activate_gripper" =>
        LET sendIdx == {i \in DOMAIN hist : IsSend(i)}
            activeIdx == {j \in DOMAIN hist : IsReplyAt(j, STA, 3)}
            ActiveSeenBefore(i) == \E j \in activeIdx : j < i
        IN  /\ Len(SentLines) >= 1 => SentLines[1] = SetLine(ACT, 1)
            /\ Len(SentLines) >= 2 => SentLines[2] = GetLine(STA)
            /\ \A i \in sendIdx :
                  (\E k \in sendIdx : k < i) =>
                      IF ActiveSeenBefore(i)
                      THEN ~IsGetAt(i, STA) /\ ~IsSetAt(i, ACT)
                      ELSE IsGetAt(i, STA)
            /\ \A i \in sendIdx :
                  (ActiveSeenBefore(i)
                   /\ \A k \in sendIdx : k < i => ~ActiveSeenBefore(k)) =>
                      hist[i].d = SetLine(GTO, 1)
            /\ Returned => \E i \in sendIdx : hist[i].d = SetLine(GTO, 1)

\* C4 witness: activate_gripper has returned and the answer to its first
\* GET STA was already STA 3
C4_Witness ==
    /\ call.fn = "activate_gripper"
    /\ Returned
    /\ \E j \in DOMAIN hist :
          /\ IsReplyAt(j, STA, 3)
          /\ \A k \in 1..(j - 1) : ~IsRecv(k) \/ hist[k].d = ACK \o <<NL>>

\* C5: a call of activate_gripper that returns has sent, after SET ACT 1,
\* exactly the writes SET GTO 1, SET POS 0, SET SPE 255, SET FOR 0, in
\* this order.
C5_ActivateBaselineWrites ==
    (call.fn = "activate_gripper" /\ Returned) =>
        SetWords = << <<SET, ACT, IntToStr(1)>>,
                      <<SET, GTO, IntToStr(1)>>,
                      <<SET, POS, IntToStr(0)>>,
                      <<SET, SPE, IntToStr(255)>>,
                      <<SET, FOR, IntToStr(0)>> >>

\* What activate_gripper does send when it returns: no force write
ActivateBaselineWithoutForce ==
    (call.fn = "activate_gripper" /\ Returned) =>
        /\ SetWords = << <<SET, ACT, IntToStr(1)>>,
                         <<SET, GTO, IntToStr(1)>>,
                         <<SET, POS, IntToStr(0)>>,
                         <<SET, SPE, IntToStr(255)>> >>
        /\ self_force = Some(0)

\* C6: in deactivate_gripper the first line sent is SET ACT 0, every
\* later line is GET STA, and a call that returns has received STA 0 as
\* its last answer.
C6_DeactivatePollsUntilUnpowered ==
    call.fn = "deactivate_gripper" =>
        /\ Len(SentLines) >= 1 => SentLines[1] = SetLine(ACT, 0)
        /\ \A i \in 2..Len(SentLines) : SentLines[i] = GetLine(STA)
        /\ Returned => IsReplyAt(LastRecv, STA, 0)

\* C6 witness: deactivate_gripper has returned after an answer other than
\* STA 0 and one sleep
C6_Witness ==
    /\ call.fn = "deactivate_gripper"
    /\ Returned
    /\ polls = 1
    /\ \E j \in DOMAIN hist : IsReplyAt(j, STA, 3)

\* C7: construction sends at most one line, GET STA, over at most one
\* socket; when it has ended and the answer received does not begin with
\* STA, it has raised ConnectionError, the caller holds no client and no
\* socket is open; when it has returned it has sent exactly one line.
C7_ConstructionChecksStatus ==
    call.fn = "__init__" =>
        /\ Len(SentLines) <= 1
        /\ \A i \in 1..Len(SentLines) : SentLines[i] = GetLine(STA)
        /\ Cardinality({i \in DOMAIN hist : hist[i].e = "socket"}) <= 1
        /\ (Ended /\ \E j \in DOMAIN hist : IsRecv(j) /\ ~StartsWith(hist[j].d, STA)) =>
               /\ RaisedWith("ConnectionError")
               /\ ~constructed
               /\ openSockets = 0
        /\ Returned => Len(SentLines) = 1 /\ constructed

\* C7 witness: construction has ended on the answer "?"
C7_Witness ==
    /\ call.fn = "__init__"
    /\ RaisedWith("ConnectionError")
    /\ \E j \in DOMAIN hist : IsRecv(j) /\ hist[j].d = <<"?", NL>>

\* C8: at most one socket is open, one is open only inside _communicate
\* between the creation of the socket and the end of the with block, and
\* none is open between two calls of the client, however the exchange ended.
C8_SocketClosedOnEveryExit ==
    /\ openSockets \in {0, 1}
    /\ openSockets = 1 <=>
           (stack # <<>> /\ Top.fn = "_communicate"
            /\ Top.pc \in {"connect", "sendall", "recv", "exit"})
    /\ stack = <<>> => openSockets = 0

\* C8 witness: a call has ended with the error raised by recv, after the
\* socket was connected, and no socket is open
C8_Witness ==
    /\ \E e \in RecvErrors : RaisedWith(e)
    /\ \E i \in DOMAIN hist : hist[i].e = "recv_fail"
    /\ hist[Len(hist)].e = "close"
    /\ openSockets = 0

\* C9: an assignment to position opens no socket and sends nothing, and
\* ends with ValueError, whatever the value.
C9_PositionIsReadOnly ==
    call.fn = "position.setter" =>
        /\ hist = <<>>
        /\ openSockets = 0
        /\ stack = <<>> => RaisedWith("ValueError")

\* C9 witness: the assignment position = 400 has ended
C9_Witness ==
    /\ call = [fn |-> "position.setter", arg |-> <<Some(400)>>]
    /\ RaisedWith("ValueError")

\* C10: in a call of a register accessor, a failed connect is the last
\* connection attempt of the call: nothing but the close of that socket
\* follows it, and the call ends with the error connect raised; when the
\* first connect of the call fails, the call has made exactly one
\* connection attempt and sent nothing.
Accessors ==
    ValueSetters \cup
    {"position.getter", "target_position.getter", "speed.getter",
     "grasp_force.getter", "is_gripper_moving", "is_object_detected"}

ConnectAttempts ==
    Cardinality({i \in DOMAIN hist : hist[i].e \in {"connect", "connect_fail"}})

C10_ConnectErrorPropagatesWithoutRetry ==
    call.fn \in Accessors =>
        \A i \in DOMAIN hist :
            hist[i].e = "connect_fail" =>
                /\ \A k \in (i + 1)..Len(hist) : hist[k].e = "close"
                /\ Cardinality({k \in DOMAIN hist : hist[k].e = "connect_fail"}) = 1
                /\ Ended => RaisedWith(hist[i].d[1])
                /\ i = 2 => ConnectAttempts = 1 /\ SentLines = <<>>

\* C10 witness: the speed setter has ended on the failure of its first
\* connect
C10_Witness ==
    /\ call.fn = "speed.setter"
    /\ \E e \in ConnectErrors : RaisedWith(e)
    /\ ConnectAttempts = 1
    /\ hist[2].e = "connect_fail"

----------------------------------------------------------------------------
\* C11

Getters ==
    {"position.getter", "target_position.getter", "speed.getter",
     "grasp_force.getter", "is_gripper_moving", "is_object_detected"}

\* A response without its line terminator, and its words
ResponseBody(d) == IF d # <<>> /\ d[Len(d)] = NL THEN DropLast(d) ELSE d
ResponseWords(d) == Split(ResponseBody(d))
NoSecondToken(d) == Len(ResponseWords(d)) < 2
SecondTokenNotInteger(d) ==
    Len(ResponseWords(d)) >= 2 /\ ~IntOk(ResponseWords(d)[2])

----------------------------------------------------------------------------
\* C12

\* The answers PRE <r> of the call with r within 5 of the clamped target,
\* received after the SET POS line of the call
ConvergedAnswers(target) ==
    {j \in DOMAIN hist :
        /\ \E r \in ReadVals :
              IsReplyAt(j, PRE, r) /\ r - target < 5 /\ target - r < 5
        /\ \E i \in 1..(j - 1) : IsSetAt(i, POS)}

\* The first line sent after event j, if any
NextSendAfter(j) ==
    {k \in (j + 1)..Len(hist) :
        IsSend(k) /\ \A m \in (j + 1)..(k - 1) : ~IsSend(m)}

\* C12: a call of move_to_position that has returned received last an
\* answer OBJ <c> with c nonzero (not moving), and received it after an
\* answer to GET PRE of the same call that read back within 5 of the clamped
\* target, itself after the SET POS line; no GET OBJ is sent before that
\* convergence; and after an answer OBJ 0 (moving) the next line the call
\* sends is GET OBJ again.
C12_MoveReturnsAfterMotionStopped ==
    call.fn = "move_to_position" =>
        LET conv == ConvergedAnswers(Clamp(call.arg[1][1], 0, 255))
        IN  /\ Returned =>
                /\ \E c \in ObjectCodes \ {0} : IsReplyAt(LastRecv, OBJ, c)
                /\ \E j \in conv : j < LastRecv
            /\ \A i \in DOMAIN hist :
                  IsGetAt(i, OBJ) => \E j \in conv : j < i
            /\ \A j \in DOMAIN hist :
                  IsReplyAt(j, OBJ, 0) =>
                      \A k \in NextSendAfter(j) : IsGetAt(k, OBJ)

\* C12 witness: move_to_position has returned after it was told once that
\* the gripper is moving and then that it is not
C12_Witness ==
    /\ call.fn = "move_to_position"
    /\ Returned
    /\ \E j \in DOMAIN hist :
          IsReplyAt(j, OBJ, 0) /\ NextSendAfter(j) # {}

----------------------------------------------------------------------------
\* C13

OpenCloseTarget == IF call.fn = "open" THEN 0 ELSE 255

\* C13: in a call of open (close) every SET line sent is the write of the
\* target position 0 (255), so no SET SPE and no SET FOR is sent; the call
\* waits as move_to_position does: GET OBJ is asked only after the target
\* read back within 5 of it, an answer OBJ 0 is followed by GET OBJ again,
\* and a call that has returned sent one SET POS line and received last an
\* answer OBJ <c> with c nonzero.
C13_OpenCloseWriteOnlyTarget ==
    call.fn \in {"open", "close"} =>
        LET conv == ConvergedAnswers(OpenCloseTarget)
        IN  /\ \A i \in 1..Len(SetWords) :
                  SetWords[i] = <<SET, POS, NatToStr(OpenCloseTarget)>>
            /\ \A i \in DOMAIN hist :
                  IsGetAt(i, OBJ) => \E j \in conv : j < i
            /\ \A j \in DOMAIN hist :
                  IsReplyAt(j, OBJ, 0) =>
                      \A k \in NextSendAfter(j) : IsGetAt(k, OBJ)
            /\ Returned =>
                /\ Len(SetWords) = 1
                /\ \E c \in ObjectCodes \ {0} : IsReplyAt(LastRecv, OBJ, c)

\* C13 witness: close has returned after it wrote the target 255 and was
\* told once that the gripper is moving
C13_Witness ==
    /\ call.fn = "close"
    /\ Returned
    /\ SetWords = << <<SET, POS, NatToStr(255)>> >>
    /\ \E j \in DOMAIN hist : IsReplyAt(j, OBJ, 0)

----------------------------------------------------------------------------
\* C14 (under StaticSpec)

\* C14: _saturate_command applied to an integer v of -100..400 returns
\* clamp(v, 0, 255), and applied again to what it returned it returns the
\* same value: after one application and after every further one the value
\* returned is clamp(v, 0, 255), inside 0..255.
C14_SaturateIsIdempotentClamp ==
    call.fn = "_saturate_command" /\ Returned =>
        /\ ret.n = Clamp(call.arg[1][1], 0, 255)
        /\ ret.n \in 0..255

\* C14 witness: 400 has been saturated twice, to 255
C14_Witness ==
    /\ call = [fn |-> "_saturate_command", arg |-> <<Some(400)>>]
    /\ Returned
    /\ nCalls = 2
    /\ ret.n = 255

----------------------------------------------------------------------------
\* C15 (under StaticSpec)

\* C15: for a target t and a read-back r of 0..255, _is_target_value_set
\* returns true exactly when t and r differ by less than 5: false at a
\* difference of 5, true at a difference of 4, and the same for (r, t) as
\* for (t, r).
C15_ConvergedIffWithinFive ==
    call.fn = "_is_target_value_set" /\ Returned =>
        LET t == call.arg[1][1]
            r == call.arg[2][1]
        IN  /\ IsTrue(ret) <=> (t - r < 5 /\ r - t < 5)
            /\ (t - r = 5 \/ r - t = 5) => ~IsTrue(ret)
            /\ (t - r = 4 \/ r - t = 4) => IsTrue(ret)
            /\ IsTrue(ret) <=> is_target_value_set(r, t)

\* C15 witness: the test of target 130 against the read-back 135 has
\* returned false
C15_Witness ==
    /\ call = [fn |-> "_is_target_value_set", arg |-> <<Some(130), Some(135)>>]
    /\ Returned
    /\ ~IsTrue(ret)

----------------------------------------------------------------------------
\* C16

\* The answers received so far in the call
Responses ==
    LET recvs == SelectSeq(hist, LAMBDA ev : ev.e = "recv")
    IN  [i \in 1..Len(recvs) |-> recvs[i].d]

\* The first call on a newly constructed client: assigning grasp_force,
\* with an answer to its SET FOR line, ends with AttributeError
FreshClientGraspForceOutcome ==
    /\ nCalls = 2
    /\ call.fn = "grasp_force.setter"
    /\ Ended
    /\ Len(Responses) = 1
    => RaisedWith("AttributeError")

\* C16: the client keeps nothing from earlier calls, so a call sends the
\* same lines and ends the same way whatever calls came before it; for the
\* assignment of grasp_force that receives one answer: it sends its one
\* SET FOR line and ends as it does as the first call on a newly
\* constructed client (FreshClientGraspForceOutcome), also when other calls
\* came before it.
C16_OutcomeIndependentOfEarlierCalls ==
    /\ call.fn = "grasp_force.setter"
    /\ Ended
    /\ Len(Responses) = 1
    => /\ Len(SentLines) = 1
       /\ RaisedWith("AttributeError")

----------------------------------------------------------------------------
\* C17

TransportErrors == ConnectErrors \cup SendErrors \cup RecvErrors
TransportFailed ==
    stack = <<>> /\ outcome.k = "raised" /\ outcome.exc \in TransportErrors

SetWordsOf(reg, n) == <<SET, reg, IntToStr(n)>>

\* The SET lines a call sends when it returns, in their order
SuccessSets(c) ==
    CASE c.fn = "activate_gripper" ->
            <<SetWordsOf(ACT, 1), SetWordsOf(GTO, 1), SetWordsOf(POS, 0),
              SetWordsOf(SPE, 255)>>
      [] c.fn = "deactivate_gripper" -> <<SetWordsOf(ACT, 0)>>
      [] c.fn \in {"move_to_position", "amove_to_position"} ->
            (IF c.arg[2] # None /\ c.arg[2][1] # 0
             THEN <<SetWordsOf(SPE, Clamp(c.arg[2][1], 0, 255))>> ELSE <<>>)
            \o <<SetWordsOf(POS, c.arg[1][1])>>
      [] c.fn = "close" -> <<SetWordsOf(POS, 255)>>
      [] c.fn = "open" -> <<SetWordsOf(POS, 0)>>
      [] c.fn = "target_position.setter" -> <<SetWordsOf(POS, c.arg[1][1])>>
      [] c.fn = "speed.setter" -> <<SetWordsOf(SPE, Clamp(c.arg[1][1], 0, 255))>>
      [] c.fn = "grasp_force.setter" ->
            <<SetWordsOf(FOR, Clamp(c.arg[1][1], 0, 255))>>
      [] OTHER -> <<>>

IsPrefix(a, b) == Len(a) <= Len(b) /\ a = SubSeq(b, 1, Len(a))

\* C17 as stated: a call that ended with a transport failure has sent
\* either none or all of the SET lines it sends when it returns.
C17_NoPartialFailure ==
    TransportFailed =>
        SetWords = <<>> \/ SetWords = SuccessSets(call)

\* C17 (amended): a call that returned has sent the SET lines of
\* SuccessSets; a call that ended with a transport failure has sent a
\* prefix of them, in their order, which for a call with a single SET line
\* is none or all of them.
C17_FailureLeavesPrefix ==
    /\ Returned => SetWords = SuccessSets(call)
    /\ TransportFailed =>
          /\ IsPrefix(SetWords, SuccessSets(call))
          /\ Len(SuccessSets(call)) <= 1 =>
                SetWords = <<>> \/ SetWords = SuccessSets(call)

\* C17 witness: activate_gripper has ended with a transport failure after
\* SET ACT 1 and SET GTO 1 and before its other SET lines
C17_Witness ==
    /\ call.fn = "activate_gripper"
    /\ TransportFailed
    /\ SetWords = <<SetWordsOf(ACT, 1), SetWordsOf(GTO, 1)>>

----------------------------------------------------------------------------
\* C18

\* The polling of move_to_position, as C12 states it, for a target
MoveWaitsForStop(target) ==
    LET conv == ConvergedAnswers(target)
    IN  /\ Returned =>
            /\ \E c \in ObjectCodes \ {0} : IsReplyAt(LastRecv, OBJ, c)
            /\ \E j \in conv : j < LastRecv
        /\ \A i \in DOMAIN hist :
              IsGetAt(i, OBJ) => \E j \in conv : j < i
        /\ \A j \in DOMAIN hist :
              IsReplyAt(j, OBJ, 0) =>
                  \A k \in NextSendAfter(j) : IsGetAt(k, OBJ)

\* amove_to_position polls as move_to_position does and sends the SET lines
\* move_to_position sends, and between an answer OBJ 0 and the next GET OBJ
\* the coroutine has awaited
CooperativeMovePollsAsBlockingMove ==
    call.fn = "amove_to_position" =>
        /\ MoveWaitsForStop(Clamp(call.arg[1][1], 0, 255))
        /\ Returned => SetWords = SuccessSets(call)
        /\ \A j \in DOMAIN hist :
              IsReplyAt(j, OBJ, 0) =>
                  \A k \in NextSendAfter(j) :
                      \E m \in (j + 1)..(k - 1) : hist[m].e = "await"

\* C18: amove_to_position polls as move_to_position does, and at each poll
\* interval it awaits instead of blocking the calling thread: in a call of
\* amove_to_position no time.sleep has been executed.
C18_CooperativeMoveNeverBlocks ==
    call.fn = "amove_to_position" =>
        /\ MoveWaitsForStop(Clamp(call.arg[1][1], 0, 255))
        /\ polls = 0

----------------------------------------------------------------------------
\* C19

\* The call has written v to reg, then received a read-back of reg within
\* 5 of it, then sent the SET POS line
WrittenBeforeTarget(reg, v) ==
    \E i, j, k \in DOMAIN hist :
        /\ i < j /\ j < k
        /\ IsSend(i) /\ Words(i) = <<SET, reg, IntToStr(v)>>
        /\ \E r \in ReadVals : IsReplyAt(j, reg, r) /\ r - v < 5 /\ v - r < 5
        /\ IsSetAt(k, POS)

\* C19: a call of move_to_position that returned has, for a speed argument
\* that was supplied (0 included), written SET SPE with the clamped speed
\* and seen it read back before it sent SET POS, and likewise SET FOR for a
\* supplied force; for an omitted argument it has sent no SET line of that
\* register.
C19_SuppliedArgumentsAreWritten ==
    (call.fn = "move_to_position" /\ Returned) =>
        LET speed == call.arg[2]
            force == call.arg[3]
        IN  /\ speed # None => WrittenBeforeTarget(SPE, Clamp(speed[1], 0, 255))
            /\ force # None => WrittenBeforeTarget(FOR, Clamp(force[1], 0, 255))
            /\ speed = None => \A i \in DOMAIN hist : ~IsSetAt(i, SPE)
            /\ force = None => \A i \in DOMAIN hist : ~IsSetAt(i, FOR)

\* What the code does with the speed: a speed other than 0 is written and
\* read back before SET POS, the speed 0 is treated as omitted
NonzeroSpeedIsWritten ==
    (call.fn = "move_to_position" /\ Returned) =>
        LET speed == call.arg[2]
        IN  IF speed # None /\ speed[1] # 0
            THEN WrittenBeforeTarget(SPE, Clamp(speed[1], 0, 255))
            ELSE \A i \in DOMAIN hist : ~IsSetAt(i, SPE)

----------------------------------------------------------------------------
\* C20 (under LiveSpec)

\* C20: when no transport operation fails and the register read back is
\* eventually within 5 of clamp(v, 0, 255) and stays there, a call of the
\* target-position, speed or force setter with value v eventually returns,
\* on a newly constructed client and on one that has been activated.
C20_SettersEventuallyReturn ==
    (call.fn \in ValueSetters /\ outcome = Running) ~> Returned

\* The two setters that read their register back do return
TargetAndSpeedSettersEventuallyReturn ==
    (call.fn \in {"target_position.setter", "speed.setter"} /\ outcome = Running)
        ~> Returned

\* The same for the force setter on a client that has been activated
ActivatedForceSetterEventuallyReturns ==
    (call.fn = "grasp_force.setter" /\ self_force # None /\ outcome = Running)
        ~> Returned

====
